---- MODULE Spec2Model ----
(***************************************************************************)
(* ImagesLoader (thunder/rdds/fileio/imagesloader.py): the driver-side     *)
(* calls fromStack / fromTif / fromPng and the per-record decoders         *)
(* toArray / multitifReader / readPngFromBuf that the cluster runs over    *)
(* the records of the reader's RDD, one task per record, in any order.     *)
(***************************************************************************)
EXTENDS Integers, Sequences, FiniteSets, TLC

\* ---- bounds of the model: records delivered by the record source, size of the
\* last axis of dims (fromStack), pages of one multipage tif, largest nplanes
\* tried, decode tasks running at once, and tasks run again after they finished
MaxRecs == 2
MaxTotal == 6
MaxPages == 3
MaxNplanes == 2
NWorkers == 2
MaxRetries == 1

\* the size of the leading axis of dims; only dims[-1] drives the code
PlaneSize == 2

\* python's optional values: None is the empty sequence, a given value x is <<x>>
None == <<>>
Some(x) == <<x>>
val(o) == o[1]

VARIABLES
    method,      \* "fromStack" | "fromTif" | "fromPng": the call under way
    dims,        \* argument dims (a sequence; <<>> or None when missing)
    nplanes,     \* argument nplanes (None or an integer)
    pilOK,       \* whether 'from PIL import Image' succeeds
    bufs,        \* the record source: bufs[idx] is the buffer of record idx, as its planes/pages
    pc,          \* driver position: "call", "checked", "read", "returned", "raised"
    err,         \* the exception raised to the caller, or None
    readCalled,  \* reader.read has been called
    lastNRecs,   \* reader.lastNRecs
    nimages,     \* the nimages handed to Images(...), None when unknown / not yet returned
    task,        \* task[idx]: the local variables of the decode of record idx under way
    out,         \* out[idx]: the (key, array) pairs of the first finished decode of record idx
    done,        \* done[idx]: a decode of record idx has finished
    retries,     \* decodes started for records that already had a finished decode
    repeatable   \* every later decode of a record returned what its first decode returned

vars == <<method, dims, nplanes, pilOK, bufs, pc, err, readCalled, lastNRecs,
          nimages, task, out, done, retries, repeatable>>

\* ---- pure helpers ----------------------------------------------------------

\* the buffer the record source delivers for record idx, holding n planes (pages)
bufOf(idx, n) == [i \in 1..n |-> <<idx, i - 1>>]

\* python: dims[-1]
lastAxis(d) == d[Len(d)]

\* python: ary[..., lo:hi] for 0 <= lo, hi <= shape[-1]; an empty slice when lo >= hi
sliceLast(ary, lo, hi) == SubSeq(ary, lo + 1, hi)

\* python truthiness of dims: None and () are false
dimsMissing(d) == d = None \/ val(d) = <<>>

\* the check written with '<' in place of '<=', which lets nplanes = 0 through
nplanesInvalid_lt(np) == np # None /\ val(np) < 0

\* 'nplanes is not None and nplanes <= 0'
nplanesInvalid(np) == np # None /\ val(np) <= 0

\* npoints without the extra point for the remainder
npoints_floor(d, np) == lastAxis(d) \div np

\* npoints: dims[-1] / nplanes, plus one when dims[-1] % nplanes
npointsOf(d, np) ==
    (lastAxis(d) \div np) + (IF lastAxis(d) % np # 0 THEN 1 ELSE 0)

\* the walk written with '<=' in place of '<', which takes one more turn
walkCond_le(curPlane, ary) == curPlane <= Len(ary)

\* 'while curPlane < ary.shape[-1]'
walkCond(curPlane, ary) == curPlane < Len(ary)

\* the closing test off by one plane
closeCond_next(curPlane, np) == (curPlane + 1) % np = 0

\* 'if curPlane % nplanes == 0'
closeCond(curPlane, np) == curPlane % np = 0

\* a key drawn from the number of records finished so far instead of from idx
stackKey_arrival(idx, npoints, timepoint) ==
    Cardinality({i \in DOMAIN done : done[i]}) * npoints + timepoint

\* 'idx*npoints + timepoint'
stackKey(idx, npoints, timepoint) == idx * npoints + timepoint

\* a counter that starts at 1 when nplanes is None: close after every page
initPagesLeft_one(np) == IF np = None THEN 1 ELSE val(np)

\* 'npagesLeft = -1 if nplanes is None else nplanes'
initPagesLeft(np) == IF np = None THEN -1 ELSE val(np)

\* 'dstack(imgArys) if len(imgArys) > 1 else imgArys[0]'
retAryOf(imgArys) ==
    IF Len(imgArys) > 1 THEN [stacked |-> TRUE, planes |-> imgArys]
                        ELSE [stacked |-> FALSE, planes |-> <<imgArys[1]>>]

\* a flush that drops a trailing group of a single page
pendingLeft_many(imgArys) == Len(imgArys) > 1

\* 'if imgArys:' after the page walk
pendingLeft(imgArys) == imgArys # <<>>

\* 'nvals = len(values); keys = [idx*nvals + timepoint for timepoint in xrange(nvals)]'
tifKeys(idx, values) == [t \in 1..Len(values) |-> idx * Len(values) + (t - 1)]

\* zip(keys, values)
zipKV(keys, values) ==
    [t \in 1..Len(values) |-> [key |-> keys[t], ary |-> values[t]]]

\* the record count reported whether or not the records are split
nimagesOf_always(n, np) == Some(n)

\* 'nimages = reader.lastNRecs if nplanes is None else None'
nimagesOf(n, np) == IF np = None THEN Some(n) ELSE None

\* ---- initial states --------------------------------------------------------

Recs == DOMAIN bufs            \* the positions 0..N-1 of the records read

StackDims == {None, Some(<<>>)} \cup {Some(<<PlaneSize, t>>) : t \in 1..MaxTotal}
NplanesArgs == {None} \cup {Some(n) : n \in -1..MaxNplanes}

idleTask ==
    [pc |-> "idle", idx |-> 0, ary |-> <<>>, npoints |-> 0, timepoint |-> 0,
     lastPlane |-> 0, curPlane |-> 0, pageIdx |-> 0, imgArys |-> <<>>,
     npagesLeft |-> None, values |-> <<>>, yielded |-> <<>>]

Init ==
    /\ method \in {"fromStack", "fromTif", "fromPng"}
    /\ dims \in (IF method = "fromStack" THEN StackDims ELSE {None})
    /\ nplanes \in (IF method = "fromPng" THEN {None} ELSE NplanesArgs)
    /\ pilOK \in (IF method = "fromTif" THEN BOOLEAN ELSE {TRUE})
    /\ \E n \in 1..MaxRecs :
         \E cnt \in [0..(n - 1) ->
                       IF method = "fromTif" THEN 1..MaxPages
                       ELSE IF method = "fromStack" /\ ~dimsMissing(dims)
                            THEN {lastAxis(val(dims))}
                            ELSE {1}] :
            bufs = [idx \in 0..(n - 1) |-> bufOf(idx, cnt[idx])]
    /\ pc = "call"
    /\ err = "none"
    /\ readCalled = FALSE
    /\ lastNRecs = 0
    /\ nimages = None
    /\ task = [idx \in DOMAIN bufs |-> idleTask]
    /\ out = [idx \in DOMAIN bufs |-> <<>>]
    /\ done = [idx \in DOMAIN bufs |-> FALSE]
    /\ retries = 0
    /\ repeatable = TRUE

\* ---- the driver: fromStack / fromTif / fromPng ------------------------------

driverOnly == UNCHANGED <<method, dims, nplanes, pilOK, bufs, task, out, done,
                          retries, repeatable>>

\* fromStack, the two checks ahead of everything else
StackCheck ==
    /\ method = "fromStack" /\ pc = "call"
    /\ IF dimsMissing(dims) \/ nplanesInvalid(nplanes)
         THEN pc' = "raised" /\ err' = "ValueError"
         ELSE pc' = "checked" /\ err' = err
    /\ UNCHANGED <<readCalled, lastNRecs, nimages>>
    /\ driverOnly

\* fromTif, the PIL import and the nplanes check
TifCheck ==
    /\ method = "fromTif" /\ pc = "call"
    /\ IF ~pilOK
         THEN pc' = "raised" /\ err' = "ImportError"
         ELSE IF nplanesInvalid(nplanes)
                THEN pc' = "raised" /\ err' = "ValueError"
                ELSE pc' = "checked" /\ err' = err
    /\ UNCHANGED <<readCalled, lastNRecs, nimages>>
    /\ driverOnly

\* reader = getParallelReaderForPath(dataPath)(self.sc); readerRdd = reader.read(...)
ReaderRead ==
    /\ \/ pc = "checked"
       \/ method = "fromPng" /\ pc = "call"
    /\ readCalled' = TRUE
    /\ lastNRecs' = Cardinality(Recs)
    /\ pc' = "read"
    /\ UNCHANGED <<err, nimages>>
    /\ driverOnly

\* return Images(readerRdd.flatMap(...), nimages=nimages, ...)
ReturnImages ==
    /\ pc = "read"
    /\ nimages' = (IF method = "fromPng" THEN Some(lastNRecs)
                                         ELSE nimagesOf(lastNRecs, nplanes))
    /\ pc' = "returned"
    /\ UNCHANGED <<err, readCalled, lastNRecs>>
    /\ driverOnly

\* ---- the tasks: one decode of one record on one worker -----------------------

taskOnly == UNCHANGED <<method, dims, nplanes, pilOK, bufs, pc, err, readCalled,
                        lastNRecs, nimages>>

\* a (key, array) pair
pair(k, a) == [key |-> k, ary |-> a]

\* frombuffer(buf, dtype, count=prod(dims)).reshape(dims, order='F'), as its planes
\* along the last axis
reshapeF(buf, d) == [stacked |-> TRUE, planes |-> SubSeq(buf, 1, lastAxis(d))]

\* the locals of toArray up to the plane walk
stackLocals(idx, buf) ==
    LET ary == reshapeF(buf, val(dims)) IN
    IF nplanes = None
      THEN [idleTask EXCEPT !.pc = "run", !.idx = idx, !.ary = ary.planes]
      ELSE IF val(nplanes) = 0
             \* dims[-1] / nplanes raises ZeroDivisionError
             THEN [idleTask EXCEPT !.pc = "failed", !.idx = idx, !.ary = ary.planes]
             ELSE [idleTask EXCEPT !.pc = "run", !.idx = idx, !.ary = ary.planes,
                                   !.npoints = npointsOf(val(dims), val(nplanes)),
                                   !.timepoint = 0, !.lastPlane = 0, !.curPlane = 1]

\* the locals of multitifReader up to the page walk
tifLocals(idx, buf) ==
    [idleTask EXCEPT !.pc = "run", !.idx = idx, !.pageIdx = 0, !.imgArys = <<>>,
                     !.npagesLeft = Some(initPagesLeft(nplanes)), !.values = <<>>]

\* the tasks under way
Running == {idx \in Recs : task[idx].pc \in {"run", "ret"}}

\* the scheduler starts the task of record idx on a free worker: each record is one
\* partition, hence one task; a finished task may be run again (retry, speculation)
StartDecode(idx) ==
    /\ pc = "returned"
    /\ task[idx].pc = "idle"
    /\ Cardinality(Running) < NWorkers
    /\ done[idx] => retries < MaxRetries
    /\ retries' = (IF done[idx] THEN retries + 1 ELSE retries)
    /\ task' = [task EXCEPT ![idx] =
                   IF method = "fromStack" THEN stackLocals(idx, bufs[idx])
                   ELSE IF method = "fromTif" THEN tifLocals(idx, bufs[idx])
                   ELSE [idleTask EXCEPT !.pc = "run", !.idx = idx]]
    /\ UNCHANGED <<out, done, repeatable>>
    /\ taskOnly

\* toArray, nplanes is None: 'yield idx, ary'
stackWhole(t) ==
    [t EXCEPT !.pc = "ret",
              !.yielded = <<pair(t.idx, [stacked |-> TRUE, planes |-> t.ary])>>]

\* toArray, the body of 'while curPlane < ary.shape[-1]'
stackWalk(t) ==
    IF closeCond(t.curPlane, val(nplanes))
      THEN [t EXCEPT
              !.yielded = Append(@, pair(stackKey(t.idx, t.npoints, t.timepoint),
                                         [stacked |-> TRUE,
                                          planes |-> sliceLast(t.ary, t.lastPlane, t.curPlane)])),
              !.timepoint = @ + 1,
              !.lastPlane = t.curPlane,
              !.curPlane = @ + 1]
      ELSE [t EXCEPT !.curPlane = @ + 1]

\* toArray, after the walk: '# yield remaining planes'
stackFlush(t) ==
    [t EXCEPT
       !.pc = "ret",
       !.yielded = Append(@, pair(stackKey(t.idx, t.npoints, t.timepoint),
                                  [stacked |-> TRUE,
                                   planes |-> sliceLast(t.ary, t.lastPlane, Len(t.ary))]))]

\* multitifReader, the body of 'while True' when seek(pageIdx) finds a page of buf
tifPage(t, buf) ==
    LET arys == Append(t.imgArys, buf[t.pageIdx + 1])
        left == val(t.npagesLeft) - 1
    IN
    IF t.npagesLeft = None
      \* 'npagesLeft -= 1' on None raises TypeError, which is not caught
      THEN [t EXCEPT !.pc = "failed", !.pageIdx = @ + 1, !.imgArys = arys]
      ELSE IF left = 0
             THEN [t EXCEPT !.pageIdx = @ + 1,
                            !.values = Append(@, retAryOf(arys)),
                            !.npagesLeft = nplanes,
                            !.imgArys = <<>>]
             ELSE [t EXCEPT !.pageIdx = @ + 1,
                            !.npagesLeft = Some(left),
                            !.imgArys = arys]

\* multitifReader, seek(pageIdx) raises EOFError: break, flush, key, return
tifEnd(t) ==
    LET values == IF pendingLeft(t.imgArys) THEN Append(t.values, retAryOf(t.imgArys))
                                            ELSE t.values
    IN
    [t EXCEPT !.pc = "ret",
              !.values = values,
              !.yielded = zipKV(tifKeys(t.idx, values), values)]

\* fromPng: mapValues(readPngFromBuf) keeps the key and decodes the buffer
pngRead(t, buf) ==
    [t EXCEPT !.pc = "ret",
              !.yielded = <<pair(t.idx, [stacked |-> FALSE, planes |-> buf])>>]

\* seek(pageIdx) succeeds while pageIdx is a page of the buffer
seekOK(t, buf) == t.pageIdx < Len(buf)

StackWhole(idx) ==
    /\ method = "fromStack" /\ task[idx].pc = "run" /\ nplanes = None
    /\ task' = [task EXCEPT ![idx] = stackWhole(@)]
    /\ UNCHANGED <<out, done, retries, repeatable>>
    /\ taskOnly

StackWalk(idx) ==
    /\ method = "fromStack" /\ task[idx].pc = "run" /\ nplanes # None
    /\ walkCond(task[idx].curPlane, task[idx].ary)
    /\ task' = [task EXCEPT ![idx] = stackWalk(@)]
    /\ UNCHANGED <<out, done, retries, repeatable>>
    /\ taskOnly

StackFlush(idx) ==
    /\ method = "fromStack" /\ task[idx].pc = "run" /\ nplanes # None
    /\ ~walkCond(task[idx].curPlane, task[idx].ary)
    /\ task' = [task EXCEPT ![idx] = stackFlush(@)]
    /\ UNCHANGED <<out, done, retries, repeatable>>
    /\ taskOnly

TifPage(idx) ==
    /\ method = "fromTif" /\ task[idx].pc = "run"
    /\ seekOK(task[idx], bufs[idx])
    /\ task' = [task EXCEPT ![idx] = tifPage(@, bufs[idx])]
    /\ UNCHANGED <<out, done, retries, repeatable>>
    /\ taskOnly

TifEnd(idx) ==
    /\ method = "fromTif" /\ task[idx].pc = "run"
    /\ ~seekOK(task[idx], bufs[idx])
    /\ task' = [task EXCEPT ![idx] = tifEnd(@)]
    /\ UNCHANGED <<out, done, retries, repeatable>>
    /\ taskOnly

PngRead(idx) ==
    /\ method = "fromPng" /\ task[idx].pc = "run"
    /\ task' = [task EXCEPT ![idx] = pngRead(@, bufs[idx])]
    /\ UNCHANGED <<out, done, retries, repeatable>>
    /\ taskOnly

\* the task ends; the first result of a record is the record's output
TaskEnd(idx) ==
    LET t == task[idx] IN
    /\ t.pc = "ret"
    /\ IF done[idx]
         THEN /\ repeatable' = (repeatable /\ t.yielded = out[idx])
              /\ UNCHANGED <<out, done>>
         ELSE /\ out' = [out EXCEPT ![idx] = t.yielded]
              /\ done' = [done EXCEPT ![idx] = TRUE]
              /\ UNCHANGED repeatable
    /\ task' = [task EXCEPT ![idx] = idleTask]
    /\ UNCHANGED retries
    /\ taskOnly

Next ==
    \/ StackCheck
    \/ TifCheck
    \/ ReaderRead
    \/ ReturnImages
    \/ \E idx \in Recs : StartDecode(idx)
    \/ \E idx \in Recs : StackWhole(idx)
    \/ \E idx \in Recs : StackWalk(idx)
    \/ \E idx \in Recs : StackFlush(idx)
    \/ \E idx \in Recs : TifPage(idx)
    \/ \E idx \in Recs : TifEnd(idx)
    \/ \E idx \in Recs : PngRead(idx)
    \/ \E idx \in Recs : TaskEnd(idx)

Spec == Init /\ [][Next]_vars

\* ---- the decode of one record run alone, start to end -------------------------

\* the locals a task of record idx starts with
startLocals(idx) ==
    IF method = "fromStack" THEN stackLocals(idx, bufs[idx])
    ELSE IF method = "fromTif" THEN tifLocals(idx, bufs[idx])
    ELSE [idleTask EXCEPT !.pc = "run", !.idx = idx]

\* one step of a running task, as the actions above take it
stepOf(t) ==
    IF method = "fromStack"
      THEN IF nplanes = None THEN stackWhole(t)
           ELSE IF walkCond(t.curPlane, t.ary) THEN stackWalk(t) ELSE stackFlush(t)
    ELSE IF method = "fromTif"
      THEN IF seekOK(t, bufs[t.idx]) THEN tifPage(t, bufs[t.idx]) ELSE tifEnd(t)
    ELSE pngRead(t, bufs[t.idx])

RECURSIVE runAlone(_)
runAlone(t) == IF t.pc = "run" THEN runAlone(stepOf(t)) ELSE t

\* what toArray / multitifReader / readPngFromBuf returns for record idx when nothing
\* else runs
decodeAlone(idx) == runAlone(startLocals(idx)).yielded

\* ---- definitions the properties share -----------------------------------------

NRecs == Cardinality(Recs)
AllDone == \A idx \in Recs : done[idx]
AllIdle == \A idx \in Recs : task[idx].pc = "idle"

\* the keys of the frames of record idx
KeysOf(idx) == {out[idx][t].key : t \in 1..Len(out[idx])}

\* the number of planes (pages) of the t-th frame of record idx
Width(idx, t) == Len(out[idx][t].ary.planes)

RECURSIVE Flatten(_)
\* the planes of a sequence of (key, array) pairs, in emission order
Flatten(ps) == IF ps = <<>> THEN <<>> ELSE ps[1].ary.planes \o Flatten(Tail(ps))

CeilDiv(a, b) == (a \div b) + (IF a % b # 0 THEN 1 ELSE 0)

Splitting == nplanes # None /\ val(nplanes) >= 1

\* ---- C1: key uniqueness -------------------------------------------------------
\* C1: whatever the decoder and the records, no two frames emitted over the whole
\* ingestion carry the same key.
KeyUniqueness ==
    \A i \in Recs : \A j \in Recs :
      \A s \in 1..Len(out[i]) : \A t \in 1..Len(out[j]) :
        out[i][s].key = out[j][t].key => (i = j /\ s = t)

\* ---- C2: monotonic file ordering ----------------------------------------------
\* C2: every key emitted for the record at position i is strictly smaller than every
\* key emitted for the record at position i+1.
MonotonicFileOrdering ==
    \A i \in Recs :
      ((i + 1) \in Recs /\ done[i] /\ done[i + 1]) =>
        \A a \in KeysOf(i) : \A b \in KeysOf(i + 1) : a < b

\* ---- C3: fromStack with nplanes, frames per record and keys --------------------
\* the spec's groupsPerFile, from the size of the last axis and nplanes
GroupsPerFile == CeilDiv(lastAxis(val(dims)), val(nplanes))

\* C3: fromStack with nplanes set: the record at position p yields exactly
\* groupsPerFile = floor(total/nplanes) + (1 if total % nplanes != 0 else 0) frames,
\* the frame with local index t has key p*groupsPerFile + t, and N records yield
\* exactly the keys 0..N*groupsPerFile-1, each once.
StackGroupsAndKeys ==
    (method = "fromStack" /\ Splitting /\ ~dimsMissing(dims)) =>
      /\ \A idx \in Recs : done[idx] =>
           /\ Len(out[idx]) = GroupsPerFile
           /\ \A t \in 1..Len(out[idx]) : out[idx][t].key = idx * GroupsPerFile + (t - 1)
      /\ AllDone =>
           /\ UNION {KeysOf(idx) : idx \in Recs} = 0..(NRecs * GroupsPerFile - 1)
           /\ \A i \in Recs : \A j \in Recs : i # j => KeysOf(i) \cap KeysOf(j) = {}
           /\ \A idx \in Recs : Cardinality(KeysOf(idx)) = Len(out[idx])

\* two records of 5 planes split by 2, and one more shape: nplanes larger than total
StackGroupsAndKeysWitness ==
    /\ method = "fromStack" /\ nplanes = Some(2) /\ dims = Some(<<PlaneSize, 5>>)
    /\ NRecs = 2 /\ AllDone /\ AllIdle
    /\ KeysOf(1) = {3, 4, 5}

\* ---- C4: fromStack with nplanes, the planes of one record ----------------------
\* C4: fromStack with nplanes set: the frames of one record, in emission order,
\* cover the planes 0..total-1 contiguously, each plane exactly once; every frame but
\* the last has exactly nplanes planes and the last has between 1 and nplanes.
StackPlanesPartition ==
    (method = "fromStack" /\ Splitting /\ ~dimsMissing(dims)) =>
      \A idx \in Recs : done[idx] =>
        /\ Flatten(out[idx]) = bufOf(idx, lastAxis(val(dims)))
        /\ \A t \in 1..(Len(out[idx]) - 1) : Width(idx, t) = val(nplanes)
        /\ Len(out[idx]) >= 1
        /\ Width(idx, Len(out[idx])) \in 1..val(nplanes)

\* total = 5, nplanes = 2: widths 2, 2, 1
StackPlanesPartitionWitness ==
    /\ method = "fromStack" /\ nplanes = Some(2) /\ dims = Some(<<PlaneSize, 5>>)
    /\ \E idx \in Recs :
         /\ done[idx] /\ Len(out[idx]) = 3
         /\ Width(idx, 1) = 2 /\ Width(idx, 2) = 2 /\ Width(idx, 3) = 1

\* ---- C5: fromStack, total an exact multiple of nplanes -------------------------
ExactMultiple ==
    /\ method = "fromStack" /\ Splitting /\ ~dimsMissing(dims)
    /\ lastAxis(val(dims)) % val(nplanes) = 0

\* the task of record idx stands at the trailing flush: the walk is over
AtFlush(idx) ==
    /\ method = "fromStack" /\ nplanes # None
    /\ task[idx].pc = "run" /\ ~(task[idx].curPlane < Len(task[idx].ary))

\* C5 as stated: when total is an exact multiple of nplanes, the trailing flush
\* emits an empty group: lastPlane == total at the flush, and the final frame has
\* zero planes.
StackFlushEmptyOnExactMultiple ==
    ExactMultiple =>
      \A idx \in Recs :
        /\ AtFlush(idx) => task[idx].lastPlane = lastAxis(val(dims))
        /\ done[idx] => Width(idx, Len(out[idx])) = 0

\* C5 as amended: when total is an exact multiple of nplanes, the trailing flush
\* emits the last full group: lastPlane == total - nplanes at the flush and the final
\* frame has exactly nplanes planes; no frame of fromStack has zero planes.
StackFlushFullOnExactMultiple ==
    /\ ExactMultiple =>
         \A idx \in Recs :
           /\ AtFlush(idx) => task[idx].lastPlane = lastAxis(val(dims)) - val(nplanes)
           /\ done[idx] => Width(idx, Len(out[idx])) = val(nplanes)
    /\ method = "fromStack" =>
         \A idx \in Recs :
           /\ \A t \in 1..Len(out[idx]) : Width(idx, t) >= 1
           /\ \A t \in 1..Len(task[idx].yielded) : Len(task[idx].yielded[t].ary.planes) >= 1

\* total = 6, nplanes = 2: a record stands at the flush with planes 4 and 5 pending,
\* another has been flushed
StackFlushFullWitness ==
    /\ ExactMultiple /\ nplanes = Some(2) /\ dims = Some(<<PlaneSize, 6>>)
    /\ \E idx \in Recs : AtFlush(idx) /\ task[idx].lastPlane = 4
    /\ \E idx \in Recs : done[idx] /\ Len(out[idx]) = 3 /\ Width(idx, 3) = 2

\* ---- C6: fromTif with nplanes, the frames of one record ------------------------
\* C6: fromTif with nplanes set: for a record of P >= 1 pages the frames partition
\* the pages 0..P-1 in page order; every frame but the last holds exactly nplanes
\* pages, the last between 1 and nplanes, none is empty; the number of frames nvals
\* is ceil(P/nplanes), and the frame with local index t has key position*nvals + t.
TifPagesPartition ==
    (method = "fromTif" /\ Splitting) =>
      \A idx \in Recs : done[idx] =>
        LET P == Len(bufs[idx])
            nvals == Len(out[idx])
        IN
        /\ Flatten(out[idx]) = bufOf(idx, P)
        /\ nvals = CeilDiv(P, val(nplanes))
        /\ \A t \in 1..(nvals - 1) : Width(idx, t) = val(nplanes)
        /\ \A t \in 1..nvals : Width(idx, t) \in 1..val(nplanes)
        /\ \A t \in 1..nvals : out[idx][t].key = idx * nvals + (t - 1)
        /\ \A t \in 1..nvals : out[idx][t].ary.stacked = (Width(idx, t) > 1)

\* a record of 3 pages at position 1 split by 2: frames of 2 pages and 1 page, keys 2, 3
TifPagesPartitionWitness ==
    /\ method = "fromTif" /\ nplanes = Some(2)
    /\ 1 \in Recs /\ Len(bufs[1]) = 3 /\ done[1]
    /\ Len(out[1]) = 2 /\ Width(1, 1) = 2 /\ Width(1, 2) = 1
    /\ KeysOf(1) = {2, 3}

\* ---- C7: eager validation of the configuration --------------------------------
\* the configurations the two methods must refuse
BadConfig ==
    \/ method = "fromStack" /\ (dims = None \/ dims = Some(<<>>))
    \/ method \in {"fromStack", "fromTif"} /\ nplanes # None /\ ~(val(nplanes) >= 1)

NothingStarted ==
    /\ ~readCalled /\ lastNRecs = 0 /\ nimages = None
    /\ \A idx \in Recs : task[idx].pc = "idle" /\ ~done[idx] /\ out[idx] = <<>>

\* C7: with empty or missing dims (fromStack) or nplanes <= 0 (fromStack, fromTif) the
\* call raises before reader.read is called, before any record is decoded and without
\* returning an Images; with a valid configuration that error is not raised.
EagerValidation ==
    /\ BadConfig => (pc \in {"call", "raised"} /\ NothingStarted)
    /\ (BadConfig /\ pc = "raised") => err \in {"ValueError", "ImportError"}
    /\ (BadConfig /\ pc = "raised" /\ pilOK) => err = "ValueError"
    /\ pc = "raised" => NothingStarted
    /\ ~BadConfig => err # "ValueError"
    /\ (~BadConfig /\ pilOK) => pc # "raised"

\* fromStack with good dims and nplanes = 0 has raised ValueError
EagerValidationWitness ==
    /\ method = "fromStack" /\ ~dimsMissing(dims) /\ nplanes = Some(0)
    /\ pc = "raised" /\ err = "ValueError" /\ ~readCalled

\* ---- C8: order independence ---------------------------------------------------
\* C8: the (key, array) pairs of a record depend only on its position, its buffer and
\* the configuration: in whatever order and interleaving the tasks run, each record's
\* output is what its decode gives when run alone, and a second decode of the same
\* record gives the same pairs.
OrderIndependence ==
    /\ repeatable
    /\ \A idx \in Recs :
         /\ done[idx] => out[idx] = decodeAlone(idx)
         /\ task[idx].pc = "ret" => task[idx].yielded = decodeAlone(idx)

\* record 1 was decoded first and is being decoded a second time, its second result
\* ready, while the first decode of record 0 is in the middle of its walk
OrderIndependenceWitness ==
    /\ NRecs >= 2 /\ Splitting
    /\ done[1] /\ ~done[0] /\ retries = 1
    /\ task[1].pc = "ret" /\ Len(task[1].yielded) >= 2
    /\ task[0].pc = "run" /\ (task[0].curPlane >= 2 \/ task[0].pageIdx >= 2)

\* ---- C9: the reported frame count ---------------------------------------------
\* the frames emitted so far, each named by its record and local index
FramesEmitted == UNION {{<<idx, t>> : t \in 1..Len(out[idx])} : idx \in Recs}

\* C9: for fromPng always, and for fromStack and fromTif when nplanes is unset, nimages
\* equals the number of records read and the number of frames emitted, one frame per
\* record with key = position; for fromStack and fromTif with nplanes set nimages is
\* None.
NimagesExactOrUnknown ==
    pc = "returned" =>
      IF method = "fromPng" \/ nplanes = None
        THEN /\ nimages = Some(NRecs)
             /\ \A idx \in Recs : done[idx] =>
                  Len(out[idx]) = 1 /\ out[idx][1].key = idx
             /\ AllDone => Cardinality(FramesEmitted) = val(nimages)
        ELSE nimages = None

\* fromTif without nplanes over two records of 3 pages and 1 page has returned
\* nimages = 2, and the two records came out as two frames
NimagesWitness ==
    /\ method = "fromTif" /\ nplanes = None
    /\ pc = "returned" /\ nimages = Some(2)
    /\ NRecs = 2 /\ Len(bufs[0]) = 3 /\ Len(bufs[1]) = 1
    /\ AllDone /\ Cardinality(FramesEmitted) = 2

\* fromStack splitting 6 planes by 2 has returned with nimages None, although its two
\* records came out as 6 frames
NimagesUnknownReached ==
    /\ method = "fromStack" /\ nplanes = Some(2) /\ dims = Some(<<PlaneSize, 6>>)
    /\ pc = "returned" /\ nimages = None
    /\ NRecs = 2 /\ AllDone /\ Cardinality(FramesEmitted) = 6

\* ---- C10: fromTif without nplanes ---------------------------------------------
\* C10: fromTif with nplanes unset: a record at position p of P >= 1 pages yields
\* exactly one frame, holding all P pages in page order, with key p; the pending group
\* is never closed before the end of the stream, the counter staying negative.
TifUnsetOneFrame ==
    (method = "fromTif" /\ nplanes = None) =>
      \A idx \in Recs :
        /\ done[idx] =>
             /\ Len(out[idx]) = 1
             /\ out[idx][1].key = idx
             /\ out[idx][1].ary.planes = bufOf(idx, Len(bufs[idx]))
        /\ task[idx].pc = "run" =>
             /\ task[idx].values = <<>>
             /\ val(task[idx].npagesLeft) < 0
             /\ Len(task[idx].imgArys) = task[idx].pageIdx

\* a record of 3 pages at position 1 came out as one frame of 3 pages with key 1
TifUnsetOneFrameWitness ==
    /\ method = "fromTif" /\ nplanes = None
    /\ 1 \in Recs /\ done[1] /\ Len(bufs[1]) = 3
    /\ Len(out[1]) = 1 /\ Width(1, 1) = 3 /\ out[1][1].key = 1

====
